---------------------------- MODULE Spec2Model ----------------------------
(***************************************************************************)
(* Weighted PageRank (pageRank.c): the graph built by createGraph, the     *)
(* degree statistics, the Win / Wout weight graphs and the iteration loop  *)
(* of calculatePageRank.                                                   *)
(*                                                                         *)
(* A C double is modelled as an exact rational <<numerator, denominator>>  *)
(* in lowest terms with a positive denominator; a denominator of 0 stands  *)
(* for the non-finite results of a division by zero (<<1,0>> = +inf,       *)
(* <<-1,0>> = -inf, <<0,0>> = NaN).  Rounding of IEEE arithmetic is not    *)
(* modelled.                                                               *)
(***************************************************************************)
EXTENDS Integers, FiniteSets, Sequences, TLC

\* Largest number of urls read from collection.txt.
MaxN == 3
\* Largest number of distinct links between the urls.
MaxEdges == 3
\* Largest small value of the maxIterations argument.
MaxIter == 2
\* Cap on the rank-update steps explored in one run.
MaxSteps == 2

---------------------------------------------------------------------------
\* double arithmetic

Abs(x) == IF x < 0 THEN -x ELSE x

RECURSIVE GCD(_, _)
GCD(a, b) == IF b = 0 THEN a ELSE GCD(b, a % b)

\* The double n/m in lowest terms (m # 0).
Q(n, m) ==
    LET s == IF m < 0 THEN -1 ELSE 1
        k == GCD(Abs(n), Abs(m))
    IN  << (s * n) \div k, (s * m) \div k >>

Zero == Q(0, 1)
One == Q(1, 1)
Half == Q(1, 2)
NaN == << 0, 0 >>

IsFinite(a) == a[2] # 0

\* a + b
RAdd(a, b) ==
    IF ~IsFinite(a) \/ ~IsFinite(b) THEN NaN
    ELSE LET k == GCD(a[2], b[2])
         IN  Q(a[1] * (b[2] \div k) + b[1] * (a[2] \div k), (a[2] \div k) * b[2])

\* -a
RNeg(a) == << -a[1], a[2] >>

\* a - b
RSub(a, b) == RAdd(a, RNeg(b))

\* a * b
RMul(a, b) ==
    IF ~IsFinite(a) \/ ~IsFinite(b) THEN NaN
    ELSE LET k1 == GCD(Abs(a[1]), b[2])
             k2 == GCD(Abs(b[1]), a[2])
         IN  Q((a[1] \div k1) * (b[1] \div k2), (a[2] \div k2) * (b[2] \div k1))

\* a / b: a zero divisor gives +inf, -inf or NaN as in IEEE arithmetic
RDiv(a, b) ==
    IF ~IsFinite(a) \/ ~IsFinite(b) THEN NaN
    ELSE IF b[1] = 0
         THEN << (IF a[1] > 0 THEN 1 ELSE IF a[1] < 0 THEN -1 ELSE 0), 0 >>
         ELSE RMul(a, Q(b[2], b[1]))

\* fabs(a)
RAbs(a) == << Abs(a[1]), a[2] >>

\* a < b (false when either is NaN)
RLess(a, b) ==
    IF a = NaN \/ b = NaN THEN FALSE
    ELSE IF ~IsFinite(a) \/ ~IsFinite(b)
         THEN (IF IsFinite(a) THEN 0 ELSE a[1]) < (IF IsFinite(b) THEN 0 ELSE b[1])
         ELSE RSub(a, b)[1] < 0

\* a >= b (false when either is NaN)
RGeq(a, b) == a # NaN /\ b # NaN /\ ~RLess(a, b)

\* (double) n
ToDouble(n) == Q(n, 1)

---------------------------------------------------------------------------
\* Graph and List

Vertices(n) == 0 .. (n - 1)

\* GraphNew(nV): nV vertices and no edges.
GraphNew(n) ==
    [nV |-> n, edges |-> [v \in Vertices(n) |-> [w \in Vertices(n) |-> Zero]]]

\* GraphInsertEdge(g, e) with e = {v, w, weight}.
GraphInsertEdge(gr, v, w, weight) ==
    IF v = w THEN gr
    ELSE [gr EXCEPT !.edges[v][w] = weight]

\* The number of edges of a graph.
NumEdges(gr) ==
    Cardinality({ e \in Vertices(gr.nV) \X Vertices(gr.nV) : gr.edges[e[1]][e[2]] # Zero })

\* The list of n url nodes, node k having index k.
ListNew(n) ==
    [k \in Vertices(n) |->
        [index |-> k, rank |-> Zero, prevRank |-> Zero,
         inDegree |-> Zero, outDegree |-> Zero]]

\* getNode(l, index)
getNode(lst, index) == lst[index]

\* isAdjacent(g, v, w)
isAdjacent(gr, v, w) == gr.edges[v][w] # Zero

\* incomingDegree with the arguments of isAdjacent swapped: the row of urlA is
\* counted instead of its column.
incomingDegreeOfRow(gr, urlA) ==
    ToDouble(Cardinality({urlB \in Vertices(gr.nV) : isAdjacent(gr, urlA, urlB)}))

\* incomingDegree(g, urlA)
incomingDegree(gr, urlA) ==
    ToDouble(Cardinality({urlB \in Vertices(gr.nV) : isAdjacent(gr, urlB, urlA)}))

\* outgoingDegree(g, urlA)
outgoingDegree(gr, urlA) ==
    ToDouble(Cardinality({urlB \in Vertices(gr.nV) : isAdjacent(gr, urlA, urlB)}))

\* initialiseRankAndDegree with 1 / N computed as an integer division.
initialiseRankIntegerDivision(lst, gr, N) ==
    [k \in DOMAIN lst |->
        [lst[k] EXCEPT !.rank = ToDouble(N[2] \div N[1]),
                       !.outDegree = outgoingDegree(gr, k),
                       !.inDegree = incomingDegree(gr, k)]]

\* initialiseRankAndDegree(l, g, N)
initialiseRankAndDegree(lst, gr, N) ==
    [k \in DOMAIN lst |->
        [lst[k] EXCEPT !.rank = RDiv(One, N),
                       !.outDegree = outgoingDegree(gr, k),
                       !.inDegree = incomingDegree(gr, k)]]

---------------------------------------------------------------------------
\* Win and Wout

\* The loop of calculateWin: pjTotalIncomingLinks over columns pjCol .. nV-1.
RECURSIVE WinTotal(_, _, _, _)
WinTotal(lst, gr, pjRow, pjCol) ==
    IF pjCol >= gr.nV THEN Zero
    ELSE LET rest == WinTotal(lst, gr, pjRow, pjCol + 1)
         IN  IF isAdjacent(gr, pjRow, pjCol)
             THEN RAdd(getNode(lst, pjCol).inDegree, rest)
             ELSE rest

\* calculateWin with the in-degree of pj as the numerator.
calculateWinOfSource(lst, gr, pj, pi) ==
    RDiv(getNode(lst, pj).inDegree, WinTotal(lst, gr, pj, 0))

\* calculateWin(l, g, pj, pi)
calculateWin(lst, gr, pj, pi) ==
    RDiv(getNode(lst, pi).inDegree, WinTotal(lst, gr, pj, 0))

\* The loop of calculateWout: pjTotalOutgoingLinks over columns pjCol .. nV-1.
RECURSIVE WoutTotal(_, _, _, _)
WoutTotal(lst, gr, pjRow, pjCol) ==
    IF pjCol >= gr.nV THEN Zero
    ELSE LET rest == WoutTotal(lst, gr, pjRow, pjCol + 1)
             refPage == getNode(lst, pjCol)
         IN  IF isAdjacent(gr, pjRow, pjCol)
             THEN (IF refPage.outDegree = Zero
                   THEN RAdd(Half, rest)
                   ELSE RAdd(refPage.outDegree, rest))
             ELSE rest

\* Whether calculateWout replaces a zero denominator by 0.5.
WoutZeroTotal(lst, gr, pj) == WoutTotal(lst, gr, pj, 0) = Zero

\* calculateWout without the 0.5 that replaces a zero out-degree of pi.
calculateWoutNoFallback(lst, gr, pj, pi) ==
    LET total == WoutTotal(lst, gr, pj, 0)
        pjTotalOutgoingLinks == IF total = Zero THEN Half ELSE total
    IN  RDiv(getNode(lst, pi).outDegree, pjTotalOutgoingLinks)

\* calculateWout(l, g, pj, pi)
calculateWout(lst, gr, pj, pi) ==
    LET piOutgoingLinks ==
            IF getNode(lst, pi).outDegree = Zero THEN Half
            ELSE getNode(lst, pi).outDegree
        total == WoutTotal(lst, gr, pj, 0)
        pjTotalOutgoingLinks == IF total = Zero THEN Half ELSE total
    IN  RDiv(piOutgoingLinks, pjTotalOutgoingLinks)

\* setGraphWin(l, g)
setGraphWin(lst, gr) ==
    [nV |-> gr.nV,
     edges |-> [pj \in Vertices(gr.nV) |-> [pi \in Vertices(gr.nV) |->
        IF isAdjacent(gr, pj, pi) /\ pj # pi
        THEN GraphInsertEdge(GraphNew(gr.nV), pj, pi,
                             calculateWin(lst, gr, pj, pi)).edges[pj][pi]
        ELSE Zero]]]

\* setGraphWout(l, g)
setGraphWout(lst, gr) ==
    [nV |-> gr.nV,
     edges |-> [pj \in Vertices(gr.nV) |-> [pi \in Vertices(gr.nV) |->
        IF isAdjacent(gr, pj, pi) /\ pj # pi
        THEN GraphInsertEdge(GraphNew(gr.nV), pj, pi,
                             calculateWout(lst, gr, pj, pi)).edges[pj][pi]
        ELSE Zero]]]

---------------------------------------------------------------------------
\* The rank update

\* The loop of getPageWeight: totalWeight over pjIndex .. nV-1.
RECURSIVE PageWeightFrom(_, _, _, _, _, _)
PageWeightFrom(lst, gr, grWin, grWout, piIndex, pjIndex) ==
    IF pjIndex >= gr.nV THEN Zero
    ELSE LET rest == PageWeightFrom(lst, gr, grWin, grWout, piIndex, pjIndex + 1)
             pj == getNode(lst, pjIndex)
             weight == RMul(RMul(pj.prevRank, grWout.edges[pjIndex][piIndex]),
                            grWin.edges[pjIndex][piIndex])
         IN  IF isAdjacent(gr, pjIndex, piIndex) THEN RAdd(weight, rest) ELSE rest

\* getPageWeight reading pj->rank, the rank being updated, instead of
\* pj->prevRank.
RECURSIVE PageWeightInPlaceFrom(_, _, _, _, _, _)
PageWeightInPlaceFrom(lst, gr, grWin, grWout, piIndex, pjIndex) ==
    IF pjIndex >= gr.nV THEN Zero
    ELSE LET rest == PageWeightInPlaceFrom(lst, gr, grWin, grWout, piIndex, pjIndex + 1)
             pj == getNode(lst, pjIndex)
             weight == RMul(RMul(pj.rank, grWout.edges[pjIndex][piIndex]),
                            grWin.edges[pjIndex][piIndex])
         IN  IF isAdjacent(gr, pjIndex, piIndex) THEN RAdd(weight, rest) ELSE rest

getPageWeightInPlace(lst, gr, grWin, grWout, pi) ==
    PageWeightInPlaceFrom(lst, gr, grWin, grWout, pi, 0)

\* getPageWeight(l, g, gWin, gWout, pi)
getPageWeight(lst, gr, grWin, grWout, pi) ==
    PageWeightFrom(lst, gr, grWin, grWout, pi, 0)

\* The rank update without the division of 1 - d by N.
NewRankNoN(damp, N, weights) ==
    RAdd(RSub(One, damp), RMul(damp, weights))

\* pi->rank = (1 - d) / N + d * weights
NewRank(damp, N, weights) ==
    RAdd(RDiv(RSub(One, damp), N), RMul(damp, weights))

\* for (pi ...) pi->prevRank = pi->rank
StorePrevRank(lst) == [k \in DOMAIN lst |-> [lst[k] EXCEPT !.prevRank = lst[k].rank]]

\* for (pi ...) pi->rank = ..., nodes pi .. nV-1 in list order
RECURSIVE UpdateRankFrom(_, _, _, _, _, _)
UpdateRankFrom(lst, gr, grWin, grWout, damp, pi) ==
    IF pi >= gr.nV THEN lst
    ELSE LET weights == getPageWeight(lst, gr, grWin, grWout, pi)
             upd == [lst EXCEPT ![pi].rank = NewRank(damp, ToDouble(gr.nV), weights)]
         IN  UpdateRankFrom(upd, gr, grWin, grWout, damp, pi + 1)

\* The loop of calculateDiff over nodes pi .. n-1.
RECURSIVE DiffFrom(_, _)
DiffFrom(lst, pi) ==
    IF pi \notin DOMAIN lst THEN Zero
    ELSE RAdd(RAbs(RSub(lst[pi].rank, lst[pi].prevRank)), DiffFrom(lst, pi + 1))

\* calculateDiff without fabs.
RECURSIVE SignedDiffFrom(_, _)
SignedDiffFrom(lst, pi) ==
    IF pi \notin DOMAIN lst THEN Zero
    ELSE RAdd(RSub(lst[pi].rank, lst[pi].prevRank), SignedDiffFrom(lst, pi + 1))

calculateDiffSigned(lst) == SignedDiffFrom(lst, 0)

\* calculateDiff(l)
calculateDiff(lst) == DiffFrom(lst, 0)

\* One execution of the body of the for loop of calculatePageRank.
IterationBody(lst, gr, grWin, grWout, damp) ==
    UpdateRankFrom(StorePrevRank(lst), gr, grWin, grWout, damp, 0)

---------------------------------------------------------------------------
\* The program

VARIABLES
    pc,             \* "load": in createGraph; "call": before calculatePageRank;
                    \* "loop": at the test of the for loop; "done": returned to main
    l,              \* urlList: the nodes with rank, prevRank, inDegree, outDegree
    g,              \* urlGraph
    gWin, gWout,    \* the weight graphs
    d, diffPR, maxIterations,   \* the parameters of calculatePageRank
    diff,           \* the local diff of calculatePageRank
    i,              \* the loop counter of calculatePageRank
    steps           \* history: executions of the loop body so far

vars == << pc, l, g, gWin, gWout, d, diffPR, maxIterations, diff, i, steps >>

DValues == { Zero, Q(17, 20), One }
DiffPRValues == { Zero, Q(1, 10000), Half }
MaxIterationsValues == (0 .. MaxIter) \cup { 100 }

\* main up to createGraph: the url list is read and the graph is created
\* without edges.  The parameters of calculatePageRank are set by the call.
Init ==
    /\ pc = "load"
    /\ \E n \in 1 .. MaxN : l = ListNew(n) /\ g = GraphNew(n)
    /\ gWin = GraphNew(0)
    /\ gWout = GraphNew(0)
    /\ d = Zero
    /\ diffPR = Zero
    /\ maxIterations = 0
    /\ diff = Zero
    /\ i = 0
    /\ steps = 0

\* insertEdges: one url read from the file of node curr; outlinkIndex is -1
\* for a url that is not in the list.
InsertEdge ==
    /\ pc = "load"
    /\ \E curr \in Vertices(g.nV), outlinkIndex \in -1 .. (g.nV - 1) :
          /\ g' = IF outlinkIndex >= 0 /\ outlinkIndex # curr
                  THEN GraphInsertEdge(g, curr, outlinkIndex, One)
                  ELSE g
          /\ NumEdges(g') <= MaxEdges
    /\ UNCHANGED << pc, l, gWin, gWout, d, diffPR, maxIterations, diff, i, steps >>

\* createGraph returns.
GraphCreated ==
    /\ pc = "load"
    /\ pc' = "call"
    /\ UNCHANGED << l, g, gWin, gWout, d, diffPR, maxIterations, diff, i, steps >>

\* main calls calculatePageRank with the arguments of the command line;
\* calculatePageRank runs up to the first test of the loop.
CalculatePageRankEnter ==
    /\ pc = "call"
    /\ d' \in DValues
    /\ diffPR' \in DiffPRValues
    /\ maxIterations' \in MaxIterationsValues
    /\ LET N == ToDouble(g.nV)
           lst == initialiseRankAndDegree(l, g, N)
       IN  /\ l' = lst
           /\ gWin' = setGraphWin(lst, g)
           /\ gWout' = setGraphWout(lst, g)
    /\ diff' = diffPR'
    /\ i' = 1
    /\ pc' = "loop"
    /\ UNCHANGED << g, steps >>

\* The test of the for loop with <= for <.
LoopConditionInclusive == i <= maxIterations /\ RGeq(diff, diffPR)

\* The test of the for loop.
LoopCondition == i < maxIterations /\ RGeq(diff, diffPR)

\* One iteration of the loop.
UpdateStep ==
    /\ pc = "loop"
    /\ LoopCondition
    /\ steps < MaxSteps
    /\ l' = IterationBody(l, g, gWin, gWout, d)
    /\ diff' = calculateDiff(l')
    /\ i' = i + 1
    /\ steps' = steps + 1
    /\ UNCHANGED << pc, g, gWin, gWout, d, diffPR, maxIterations >>

\* The loop ends and calculatePageRank returns the list to main.
Return ==
    /\ pc = "loop"
    /\ ~LoopCondition
    /\ pc' = "done"
    /\ UNCHANGED << l, g, gWin, gWout, d, diffPR, maxIterations, diff, i, steps >>

Next ==
    \/ InsertEdge
    \/ GraphCreated
    \/ CalculatePageRankEnter
    \/ UpdateStep
    \/ Return

Spec == Init /\ [][Next]_vars

TypeOK ==
    /\ pc \in { "load", "call", "loop", "done" }
    /\ steps \in 0 .. MaxSteps

---------------------------------------------------------------------------
\* Definitions used to state the properties

\* The sum of f[x] over x in S.
RECURSIVE RSum(_, _)
RSum(f, S) ==
    IF S = {} THEN Zero
    ELSE LET x == CHOOSE y \in S : TRUE
         IN  RAdd(f[x], RSum(f, S \ {x}))

V == Vertices(g.nV)
HasEdge(j, k) == g.edges[j][k] # Zero
Targets(j) == { k \in V : HasEdge(j, k) }
Sources(k) == { j \in V : HasEdge(j, k) }
OutDeg(x) == Cardinality(Targets(x))
InDeg(x) == Cardinality(Sources(x))
EffOut(x) == IF OutDeg(x) # 0 THEN Q(OutDeg(x), 1) ELSE Half
Ranked == pc \in { "loop", "done" }
RankOf(lst) == [k \in DOMAIN lst |-> lst[k].rank]

\* (1 - d)/N + d * (sum over the edges j -> k of R[j] * Wout[j][k] * Win[j][k])
SyncRank(R, k) ==
    RAdd(RDiv(RSub(One, d), Q(g.nV, 1)),
         RMul(d, RSum([j \in V |-> RMul(R[j], RMul(gWout.edges[j][k], gWin.edges[j][k]))],
                      Sources(k))))

\* The L1 distance between two rank vectors.
L1(R1, R2) == RSum([k \in DOMAIN R1 |-> RAbs(RSub(R1[k], R2[k]))], DOMAIN R1)

\* The rank vector one further update step would produce from the current one.
ForcedStep == [k \in V |-> SyncRank(RankOf(l), k)]

ValidConfig == maxIterations >= 1 /\ RLess(Zero, diffPR)

Max(a, b) == IF a >= b THEN a ELSE b

---------------------------------------------------------------------------
C2_RefusesInvalidConfig ==
    (Ranked /\ ~ValidConfig) => (steps = 0 /\ pc # "done")

\* C3: on return the run is Converged (the last diff is below diffPR) or
\* Exhausted (the loop counter equals maxIterations).
C3_TerminalStates ==
    pc = "done" => (RLess(diff, diffPR) \/ i = maxIterations)

\* C3 restricted to maxIterations >= 1: the terminal states and the loop test.
C3_TerminalStatesValid ==
    (pc = "done" /\ maxIterations >= 1) =>
        ((steps >= 1 /\ RLess(diff, diffPR)) \/ i = maxIterations)

\* C4: every update step writes, for every node k, the rank
\* (1 - d)/N + d * sum_{j -> k} R[j] * Wout[j][k] * Win[j][k] with R the
\* rank vector before the step.
C4_SynchronousUpdate ==
    [][steps' = steps + 1 =>
          \A k \in V : l'[k].rank = SyncRank(RankOf(l), k)]_vars

\* C4 witness: a step has changed the rank of a node j that has an edge to a
\* node processed after it.
C4_Witness ==
    /\ pc = "loop" /\ steps >= 1
    /\ \E j \in V, k \in V :
          j < k /\ HasEdge(j, k) /\ l[j].rank # l[j].prevRank

\* C5: for every edge j -> k, Wout[j][k] = effOut(k) / sum of effOut over the
\* nodes j links to, with effOut(x) = outDegree(x) if nonzero and 0.5 otherwise.
C5_Wout ==
    Ranked =>
        \A j \in V, k \in V :
            HasEdge(j, k) =>
                gWout.edges[j][k] =
                    RDiv(EffOut(k), RSum([x \in V |-> EffOut(x)], Targets(j)))

\* C5 witness: an edge whose target has out-degree 0, from a node that also
\* links to a node with a positive out-degree.
C5_Witness ==
    /\ Ranked
    /\ \E j \in V, k \in V, x \in V :
          HasEdge(j, k) /\ OutDeg(k) = 0 /\ HasEdge(j, x) /\ OutDeg(x) > 0

\* C6: for every edge j -> k, Win[j][k] = inDegree(k) / sum of inDegree over
\* the nodes j links to; the entries of the non-edges are 0.
C6_Win ==
    Ranked =>
        \A j \in V, k \in V :
            gWin.edges[j][k] =
                IF HasEdge(j, k)
                THEN RDiv(Q(InDeg(k), 1), RSum([x \in V |-> Q(InDeg(x), 1)], Targets(j)))
                ELSE Zero

\* C6 witness: a node that links to two nodes of different in-degree.
C6_Witness ==
    /\ Ranked
    /\ \E j \in V, k \in V, x \in V :
          HasEdge(j, k) /\ HasEdge(j, x) /\ InDeg(k) # InDeg(x)

\* C7: once the last computed diff is below diffPR, one further update step
\* changes the rank vector by less than diffPR in L1 norm.
C7_FurtherStepBelowDiffPR ==
    (Ranked /\ steps >= 1 /\ RLess(diff, diffPR)) =>
        RLess(L1(ForcedStep, RankOf(l)), diffPR)

\* C7 witness: the run has converged with a nonzero diff and a further step
\* would still change the ranks.
C7_Witness ==
    /\ pc = "done" /\ steps >= 1
    /\ RLess(Zero, diff) /\ RLess(diff, diffPR)
    /\ RLess(Zero, L1(ForcedStep, RankOf(l)))

\* C8: in a graph without edges every rank is (1 - d)/N after the first step
\* and after every later one, and every step after the first computes diff 0.
C8_NoEdges ==
    (\A j \in V : Targets(j) = {}) =>
        /\ steps >= 1 => \A k \in V : l[k].rank = RDiv(RSub(One, d), Q(g.nV, 1))
        /\ steps >= 2 => diff = Zero

\* C8 witness: two steps on a graph of at least two nodes and no edges.
C8_Witness ==
    /\ \A j \in V : Targets(j) = {}
    /\ g.nV >= 2 /\ steps >= 2

\* The scenario of C9.
Cycle3 ==
    /\ g.nV = 3
    /\ \A j \in V, k \in V : HasEdge(j, k) <=> k = (j + 1) % 3
Scenario9 ==
    Cycle3 /\ d = Q(17, 20) /\ diffPR = Q(1, 10000) /\ maxIterations = 100

\* C9: on the 3-cycle with d = 0.85, diffPR = 0.0001, maxIterations = 100,
\* Win and Wout are 1 on every edge, every step reproduces the ranks 1/3 and
\* the run returns Converged with all ranks 1/3.
C9_Cycle ==
    (Scenario9 /\ Ranked) =>
        /\ \A j \in V, k \in V :
              HasEdge(j, k) => gWin.edges[j][k] = One /\ gWout.edges[j][k] = One
        /\ \A k \in V : l[k].rank = Q(1, 3)
        /\ pc = "done" => (steps >= 1 /\ RLess(diff, diffPR))

\* C9 witness: the scenario has returned.
C9_Witness == Scenario9 /\ pc = "done"

\* C10: for every edge j -> k the Win denominator is at least 1 and the Wout
\* denominator at least 0.5 (never replaced by the 0.5 of the zero branch),
\* and the stored Win and Wout are finite and strictly positive.
C10_Denominators ==
    Ranked =>
        \A j \in V, k \in V :
            (HasEdge(j, k) /\ j # k) =>
                /\ RGeq(WinTotal(l, g, j, 0), One)
                /\ RGeq(WoutTotal(l, g, j, 0), Half)
                /\ ~WoutZeroTotal(l, g, j)
                /\ IsFinite(gWin.edges[j][k]) /\ RLess(Zero, gWin.edges[j][k])
                /\ IsFinite(gWout.edges[j][k]) /\ RLess(Zero, gWout.edges[j][k])

\* C10 witness: weights stored for a node whose only target has out-degree 0
\* and in-degree 1.
C10_Witness ==
    /\ Ranked
    /\ \E j \in V, k \in V :
          Targets(j) = {k} /\ OutDeg(k) = 0 /\ InDeg(k) = 1

=============================================================================
